---- MODULE Spec2Model ----
(***************************************************************************)
(* HttpTimeTravelProxy: a forward HTTP proxy that answers every GET with   *)
(* the Wayback-Machine snapshot of the requested URL.                      *)
(*                                                                         *)
(* Two implementations are modelled side by side, selected by `impl`:      *)
(*   "js" : src/HttpTimeTravelProxy.js lines 1-404 (the current revision)  *)
(*   "go" : src/main.go                                                    *)
(*                                                                         *)
(* Strings are sequences of tokens.  A token is either one character       *)
(* (SP, TAB, LF, "/", "*") or a fixed literal that never straddles a       *)
(* place where the code cuts a string (the archive base, a timestamp, the  *)
(* "id_" flag, a method word, an opaque host such as "http://a").          *)
(* Buffers are sequences of byte tokens.                                   *)
(***************************************************************************)
EXTENDS Integers, Sequences, FiniteSets, TLC

\* ------------------------------------------------------------------------
\* Program constants
\* ------------------------------------------------------------------------
TIME_TRAVEL_DATETIME == "19990412"
PROXY_SERVER_NAME == "HttpTimeTravelProxy/0.1"
WAYBACK_URL == "https://web.archive.org/web/"
AVAILABLE_URL == "https://archive.org/wayback/available?url="
TIMESTAMP_PARAM == "&timestamp="
ID_FLAG == "id_"
SLASH == "/"

\* ------------------------------------------------------------------------
\* Characters
\* ------------------------------------------------------------------------
SP == " "
TAB == "\t"
LF == "\n"
CRLF == "\r\n"

\* A second snapshot timestamp the archive may answer with.
OTHER_TIMESTAMP == "20010203"

\* Tokens all of whose characters are in the class [0-9a-z_].
ClassTokens == {TIME_TRAVEL_DATETIME, OTHER_TIMESTAMP, ID_FLAG}

IsSpace(tok) == tok \in {SP, TAB, LF, CRLF}

IsLineTerminator(tok) == tok \in {LF, CRLF}

\* ------------------------------------------------------------------------
\* String library (String.prototype / package strings)
\* ------------------------------------------------------------------------
Tail2(s, i) == SubSeq(s, i, Len(s))

RECURSIVE TrimLeft(_)
TrimLeft(s) ==
    IF s # <<>> /\ IsSpace(Head(s)) THEN TrimLeft(Tail(s)) ELSE s

RECURSIVE TrimRight(_)
TrimRight(s) ==
    IF s # <<>> /\ IsSpace(s[Len(s)]) THEN TrimRight(SubSeq(s, 1, Len(s) - 1)) ELSE s

\* String.prototype.trim / strings.TrimSpace
Trim(s) == TrimRight(TrimLeft(s))

\* Position of the first token of s that satisfies Stop, or Len(s)+1.
RECURSIVE FirstIndex(_, _, _)
FirstIndex(s, i, toks) ==
    IF i > Len(s) THEN Len(s) + 1
    ELSE IF s[i] \in toks THEN i
    ELSE FirstIndex(s, i + 1, toks)

\* String.prototype.split(sep) for a one-token separator: empty pieces kept.
RECURSIVE Split(_, _)
Split(s, sep) ==
    LET i == FirstIndex(s, 1, {sep})
    IN  IF i > Len(s) THEN <<s>>
        ELSE <<SubSeq(s, 1, i - 1)>> \o Split(Tail2(s, i + 1), sep)

\* strings.Fields: split around runs of white space, no empty pieces.
RECURSIVE Fields(_)
Fields(s) ==
    LET t == TrimLeft(s)
        j == FirstIndex(t, 1, {SP, TAB, LF, CRLF})
    IN  IF t = <<>> THEN <<>>
        ELSE <<SubSeq(t, 1, j - 1)>> \o Fields(Tail2(t, j))

\* toLowerCase / strings.ToLower on the method words of the model.
LowerTok(tok) ==
    CASE tok = "GET" -> "get"
      [] tok = "Get" -> "get"
      [] tok = "POST" -> "post"
      [] tok = "CONNECT" -> "connect"
      [] OTHER -> tok

ToLower(s) == [i \in 1..Len(s) |-> LowerTok(s[i])]

\* ------------------------------------------------------------------------
\* Original/Archive URL codec
\* ------------------------------------------------------------------------
\* WAYBACK_URL_FORMAT: https://web\.archive\.org/web/([0-9a-z_]*)/(.*)
\* MatchAt(s, i): the pattern matches with the archive base at position i;
\* the class run is greedy, so the first token after it must be the slash.
RECURSIVE ClassRunEnd(_, _)
ClassRunEnd(s, j) ==
    IF j <= Len(s) /\ s[j] \in ClassTokens THEN ClassRunEnd(s, j + 1) ELSE j

MatchAt(s, i) ==
    /\ s[i] = WAYBACK_URL
    /\ ClassRunEnd(s, i + 1) <= Len(s)
    /\ s[ClassRunEnd(s, i + 1)] = SLASH

\* Leftmost position where the (unanchored) pattern matches, or 0.
RECURSIVE FirstMatch(_, _)
FirstMatch(s, i) ==
    IF i > Len(s) THEN 0
    ELSE IF MatchAt(s, i) THEN i
    ELSE FirstMatch(s, i + 1)

\* Capture group 2: (.*) runs to the first line terminator or the end.
Group2(s, i) ==
    LET from == ClassRunEnd(s, i + 1) + 1
        stop == FirstIndex(s, from, {LF, CRLF})
    IN  SubSeq(s, from, stop - 1)

getOriginalUrl(translatedUrl) ==
    LET i == FirstMatch(translatedUrl, 1)
    IN  IF i = 0 THEN translatedUrl ELSE Trim(Group2(translatedUrl, i))

\* Mutant: builds the URL from the configured date, not the snapshot's.
ArchiveUrlOfTargetDate(timestamp, sourceUrl) ==
    <<WAYBACK_URL, TIME_TRAVEL_DATETIME, ID_FLAG, SLASH>> \o sourceUrl

\* WAYBACK_URL + timestamp + "id_/" + sourceUrl
ArchiveUrl(timestamp, sourceUrl) ==
    <<WAYBACK_URL, timestamp, ID_FLAG, SLASH>> \o sourceUrl

\* "https://archive.org/wayback/available?url=" + sourceUrl + "&timestamp=" + date
ApiUrl(sourceUrl) ==
    <<AVAILABLE_URL>> \o sourceUrl \o <<TIMESTAMP_PARAM, TIME_TRAVEL_DATETIME>>

\* ------------------------------------------------------------------------
\* Bounds and input sets
\* ------------------------------------------------------------------------
\* Deepest chain of silently followed redirects explored by Spec.
MaxDepth == 2
\* Deepest chain explored by SpecLoop.
LoopDepth == 12
\* Number of chunks a client sends on one connection.
MaxChunks == 2
\* The same two bounds for SpecConc.
ConcDepth == 0
ConcChunksPerConn == 1

TaskIds == {1, 2}
Conns == {1, 2}
Impls == {"js", "go"}

URL_A == <<"http://a">>
URL_A_SLASH == <<"http://a", SLASH>>
URL_B == <<"http://b">>

ClientUrls == {URL_A, URL_A_SLASH}

Methods == {"GET", "get", "POST"}

HeaderBlocks ==
    { <<>>, <<"Host:", SP, "a", CRLF, CRLF>>, <<"Host:", SP, "a", LF, LF>> }

RequestLine(method, url, version) == <<method, SP>> \o url \o <<SP, version>>

WellFormedChunks ==
    { RequestLine(m, u, "HTTP/1.1") \o eol \o h :
        m \in Methods, u \in ClientUrls, eol \in {<<CRLF>>, <<LF>>}, h \in HeaderBlocks }

OddChunks ==
    { <<>>,
      <<CRLF>>,
      <<"GET", SP>> \o URL_A \o <<CRLF>>,
      <<"GET", SP>> \o URL_A \o <<SP, "HTTP/1.1", SP, "x", CRLF>>,
      <<"GET", SP, SP>> \o URL_A \o <<SP, "HTTP/1.1", CRLF>>,
      <<"GET", TAB>> \o URL_A \o <<TAB, "HTTP/1.1", CRLF>>,
      <<TAB, "GET", SP>> \o URL_A \o <<SP, "HTTP/1.1", CRLF>>,
      <<"GET", SP>> \o URL_A \o <<SP, "HTTP/1.1">>,
      <<"GET", SP>> \o URL_A \o <<LF, "x", SP, "HTTP/1.1", CRLF>> }

Chunks == WellFormedChunks \cup OddChunks

\* Location headers the archive may answer with.
Locations ==
    { ArchiveUrl(ts, u) : ts \in {TIME_TRAVEL_DATETIME, OTHER_TIMESTAMP},
                          u \in {URL_A, URL_A_SLASH} }
    \cup { ArchiveUrl(OTHER_TIMESTAMP, URL_B),
           <<WAYBACK_URL, OTHER_TIMESTAMP, SLASH>> \o URL_A,
           URL_A, URL_A_SLASH,
           <<WAYBACK_URL, "*", SLASH>> \o URL_B,
           ArchiveUrl(OTHER_TIMESTAMP, ArchiveUrl(TIME_TRAVEL_DATETIME, URL_B)) }

ContentTypes == {"text/plain", "image/gif"}

\* Lookup documents of https://archive.org/wayback/available
JSON_EMPTY == "{}"
JSON_NO_CLOSEST == "{archived_snapshots:{}}"
JSON_CLOSEST == "{archived_snapshots:{closest:{available:true,timestamp:20010203}}}"
JSON_CLOSEST_GONE == "{archived_snapshots:{closest:{available:false,timestamp:20010203}}}"

JSON_CLOSEST_TARGET == "{archived_snapshots:{closest:{available:true,timestamp:19990412}}}"

JsonBodies == { <<JSON_EMPTY>>, <<JSON_NO_CLOSEST>>, <<JSON_CLOSEST>>, <<JSON_CLOSEST_GONE>> }

\* Content bodies: bytes; "c3","a9" is one two-byte character.
ContentBodies == { <<"h", "c3", "a9">> }

Bodies == JsonBodies \cup ContentBodies

\* Response heads (status line and headers) the archive may answer with.
ResponseHead(status, hasLoc, loc, ctype) ==
    [status |-> status, hasLoc |-> hasLoc, loc |-> loc, ctype |-> ctype]

Heads ==
    { ResponseHead(200, FALSE, <<>>, c) : c \in ContentTypes }
    \cup { ResponseHead(204, FALSE, <<>>, "text/plain") }
    \cup { ResponseHead(302, TRUE, l, "text/html") : l \in Locations }
    \cup { ResponseHead(301, TRUE, l, "text/html") :
              l \in {ArchiveUrl(OTHER_TIMESTAMP, URL_A_SLASH), ArchiveUrl(OTHER_TIMESTAMP, URL_B)} }
    \cup { ResponseHead(s, FALSE, <<>>, "text/html") : s \in {302, 304, 404, 500} }

\* ------------------------------------------------------------------------
\* State
\* ------------------------------------------------------------------------
VARIABLES
    impl,      \* which implementation runs: "js" or "go"
    task,      \* task[t]: one handler invocation ('data' callback / goroutine)
    out,       \* out[c]: responses written to connection c, in order
    received,  \* received[c]: number of chunks the client has sent on c
    closed,    \* closed[c]: connection c is closed (by the proxy, or reset)
    codec,     \* arguments and results of the URL codec applied on its own
    lookupClosestSnapshot
               \* the lookup mode the operator asks for; no program reads it

vars == <<impl, task, out, received, closed, codec, lookupClosestSnapshot>>

\* doc is the lookup document the target URL of the first content fetch was
\* built from, kept while that fetch is in flight.
\* reply is the position in out[conn] of the response the task wrote (0:
\* none yet); lookups and fetches count the outbound requests it issued.
\* pc: "idle"  no chunk yet
\*     "recv"  a chunk has arrived, the handler has not run
\*     "wait"  an outbound GET to `cur` is in flight, no response yet
\*     "body"  the response head was handled, body data / end still to come
\*     "done"  the handler has nothing left to do
\*     "hung"  the promise of the outbound request can no longer settle
IdleTask ==
    [pc |-> "idle", conn |-> 0, chunk |-> <<>>, url |-> <<>>,
     phase |-> "none", cur |-> <<>>, depth |-> 0,
     status |-> 0, hasLoc |-> FALSE, loc |-> <<>>, ctype |-> "",
     body |-> <<>>, settled |-> FALSE, error |-> FALSE,
     lookups |-> 0, fetches |-> 0, reply |-> 0, doc |-> <<>>]

\* The codec has been applied to nothing.
NoCodec ==
    [a |-> <<>>, b |-> <<>>, ts |-> "", did |-> {},
     decoded |-> <<>>, roundTrip |-> <<>>, equivalent |-> FALSE, swapped |-> FALSE]

\* The server is listening and no client has connected.
Listening ==
    /\ impl \in Impls
    /\ task = [t \in TaskIds |-> IdleTask]
    /\ out = [c \in Conns |-> <<>>]
    /\ received = [c \in Conns |-> 0]
    /\ closed = [c \in Conns |-> FALSE]

Init == Listening /\ codec = NoCodec /\ lookupClosestSnapshot = TRUE

\* ------------------------------------------------------------------------
\* Response writer
\* ------------------------------------------------------------------------
\* Mutant: counts characters (UTF-8 lead bytes), not bytes.
CharLength(body) == Cardinality({i \in 1..Len(body) : body[i] # "a9"})

\* Buffer.byteLength(buffer) / len([]byte)
ByteLength(body) == Len(body)

returnHttpResponse(code, text, type, body) ==
    [code |-> code, reason |-> text,
     hasServer |-> TRUE, server |-> PROXY_SERVER_NAME,
     hasType |-> TRUE, type |-> type,
     hasLength |-> TRUE, length |-> ByteLength(body),
     hasLocation |-> FALSE, location |-> <<>>,
     body |-> body]

\* Mutant: a redirect that also announces an empty body.
returnHttpRedirectWithLength(statusCode, locationUrl) ==
    [code |-> statusCode,
     reason |-> IF statusCode = 301 THEN "Moved Permanently" ELSE "Found",
     hasServer |-> FALSE, server |-> "",
     hasType |-> FALSE, type |-> "",
     hasLength |-> TRUE, length |-> 0,
     hasLocation |-> TRUE, location |-> locationUrl,
     body |-> <<>>]

returnHttpRedirect(statusCode, locationUrl) ==
    [code |-> statusCode,
     reason |-> IF statusCode = 301 THEN "Moved Permanently" ELSE "Found",
     hasServer |-> FALSE, server |-> "",
     hasType |-> FALSE, type |-> "",
     hasLength |-> FALSE, length |-> 0,
     hasLocation |-> TRUE, location |-> locationUrl,
     body |-> <<>>]

HTML_400 == "<title>400 Bad Request</title>The proxy server cannot understand the request or does not support the request method."
HTML_404 == "<title>404 Not Found</title>The remote server could not find the content:"
HTML_502 == "<title>502 Bad Gateway</title>The proxy server encountered a problem when fetching the content:"
HTML_END == "</body></html>"

returnHttpNotFound(url) ==
    returnHttpResponse(404, "Not Found", "text/html", <<HTML_404>> \o url \o <<HTML_END>>)

returnHttpBadGateway(text) ==
    returnHttpResponse(502, "Bad Gateway", "text/html", <<HTML_502>> \o text \o <<HTML_END>>)

returnHttpBadRequest ==
    returnHttpResponse(400, "Bad Request", "text/html", <<HTML_400, HTML_END>>)

REMOTE_RETURNED == "The remote server returned HTTP "
UNDEFINED == "undefined"

\* ------------------------------------------------------------------------
\* Handler steps.  Each yields the task's next record and the responses
\* (none or one) it writes to its connection.
\* ------------------------------------------------------------------------
Step(k, w) ==
    [k |-> [k EXCEPT !.doc = IF k.phase = "fetch" /\ k.pc = "wait" /\ k.depth = 0
                             THEN @ ELSE <<>>],
     w |-> w]

Finish(k, resp) == Step([k EXCEPT !.pc = "done"], <<resp>>)

\* Mutant: answers 404 for every upstream status from 404 up.
catchJsFrom404(k, hasStatus, statusCode) ==
    IF hasStatus /\ statusCode >= 404
    THEN <<returnHttpResponse(404, "Not Found", "text/html",
              <<HTML_404>> \o k.url \o <<HTML_END>>)>>
    ELSE <<returnHttpResponse(502, "Bad Gateway", "text/html",
              <<HTML_502, REMOTE_RETURNED,
                IF hasStatus THEN ToString(statusCode) ELSE UNDEFINED, HTML_END>>)>>

\* The catch block of returnProxyResponse (js): ex.statusCode decides.
catchJs(k, hasStatus, statusCode) ==
    IF hasStatus /\ statusCode = 404
    THEN <<returnHttpNotFound(k.url)>>
    ELSE <<returnHttpBadGateway(
              <<REMOTE_RETURNED, IF hasStatus THEN ToString(statusCode) ELSE UNDEFINED>>)>>

\* The error branch of returnProxyResponse (go) after httpRequest failed.
\* statusCode is 0 unless the error is an HTTPError.
errorGo(k, statusCode) ==
    IF statusCode = 404
    THEN returnHttpNotFound(k.url)
    ELSE returnHttpBadGateway(<<REMOTE_RETURNED, ToString(statusCode)>>)

\* returnProxyResponse up to its first await: issues the availability lookup.
returnProxyResponse(k, url) ==
    Step([k EXCEPT !.url = url, !.phase = "lookup", !.pc = "wait",
                   !.cur = ApiUrl(url), !.depth = 0, !.lookups = 1], <<>>)

\* socket.on('data') of HttpTimeTravelProxy.js
onData(k) ==
    LET clientRequest == Split(k.chunk, CRLF)
        proxyRequest == Split(clientRequest[1], SP)
        k0 == [k EXCEPT !.chunk = <<>>]
    IN  IF Len(clientRequest) > 0
        THEN IF Len(proxyRequest) = 3
             THEN IF ToLower(Trim(proxyRequest[1])) = <<"get">>
                  THEN returnProxyResponse(k0, proxyRequest[2])
                  ELSE Finish(k0, returnHttpBadRequest)
             ELSE Finish(k0, returnHttpBadRequest)
        ELSE Finish(k0, returnHttpBadRequest)

\* handleConnection of main.go: ReadString('\n') reads through the first
\* line feed; without one the read ends in an error and nothing is written.
handleConnection(k) ==
    LET eol == FirstIndex(k.chunk, 1, {LF, CRLF})
        requestLine == SubSeq(k.chunk, 1, eol)
        requestParts == Fields(requestLine)
        k0 == [k EXCEPT !.chunk = <<>>]
    IN  IF eol > Len(k.chunk)
        THEN Step([k0 EXCEPT !.pc = "done"], <<>>)
        ELSE IF Len(requestParts) # 3
        THEN Finish(k0, returnHttpBadRequest)
        ELSE IF ToLower(requestParts[1]) = <<"get">>
        THEN returnProxyResponse(k0, requestParts[2])
        ELSE Finish(k0, returnHttpBadRequest)

\* ------------------------------------------------------------------------
\* Availability resolver
\* ------------------------------------------------------------------------
JsonValue(ok, hasSnapshots, hasClosest, available, timestamp) ==
    [ok |-> ok, hasSnapshots |-> hasSnapshots, hasClosest |-> hasClosest,
     available |-> available, timestamp |-> timestamp]

\* JSON.parse / json.Unmarshal on the lookup documents of the model; any
\* other body is not JSON.
ParseJson(body) ==
    CASE body = <<JSON_EMPTY>> -> JsonValue(TRUE, FALSE, FALSE, FALSE, "")
      [] body = <<JSON_NO_CLOSEST>> -> JsonValue(TRUE, TRUE, FALSE, FALSE, "")
      [] body = <<JSON_CLOSEST>> -> JsonValue(TRUE, TRUE, TRUE, TRUE, OTHER_TIMESTAMP)
      [] body = <<JSON_CLOSEST_GONE>> -> JsonValue(TRUE, TRUE, TRUE, FALSE, OTHER_TIMESTAMP)
      [] body = <<JSON_CLOSEST_TARGET>> -> JsonValue(TRUE, TRUE, TRUE, TRUE, TIME_TRAVEL_DATETIME)
      [] OTHER -> JsonValue(FALSE, FALSE, FALSE, FALSE, "")

\* Starts the content fetch that follows a successful lookup.
fetchTarget(k, targetUrl) ==
    Step([k EXCEPT !.phase = "fetch", !.pc = "wait", !.cur = targetUrl,
                   !.depth = 0, !.body = <<>>, !.settled = FALSE,
                   !.status = 0, !.hasLoc = FALSE, !.loc = <<>>, !.ctype = "",
                   !.fetches = 1, !.doc = k.body], <<>>)

\* getTargetUrl (js) from the parsed lookup body on, and the caller's
\* null test.
getTargetUrlJs(k) ==
    LET json == ParseJson(k.body)
    IN  IF ~json.ok
        THEN Step([k EXCEPT !.pc = "done", !.settled = TRUE], catchJs(k, FALSE, 0))
        ELSE IF json.hasSnapshots
        THEN IF json.hasClosest
             THEN fetchTarget(k, ArchiveUrl(json.timestamp, k.url))
             ELSE Finish([k EXCEPT !.settled = TRUE], returnHttpNotFound(k.url))
        ELSE fetchTarget(k, ArchiveUrl(TIME_TRAVEL_DATETIME, k.url))

\* Mutant: builds every target URL from the configured date.
getTargetUrlGoTargetDate(k) ==
    IF ParseJson(k.body).ok /\ ParseJson(k.body).hasClosest /\ ParseJson(k.body).available
    THEN fetchTarget(k, ArchiveUrl(TIME_TRAVEL_DATETIME, k.url))
    ELSE Finish(k, returnHttpNotFound(k.url))

\* getTargetUrl (go) from the lookup body on, and the caller's test
\* err != nil || targetUrl == "".
getTargetUrlGo(k) ==
    LET apiResult == ParseJson(k.body)
    IN  IF ~apiResult.ok
        THEN Finish(k, returnHttpNotFound(k.url))
        ELSE IF apiResult.hasClosest /\ apiResult.available
        THEN fetchTarget(k, ArchiveUrl(apiResult.timestamp, k.url))
        ELSE Finish(k, returnHttpNotFound(k.url))

\* ------------------------------------------------------------------------
\* Upstream fetcher
\* ------------------------------------------------------------------------
\* Mutant: compares for equality only, without the trailing-slash cases.
isInternalJsExact(r, url) ==
    r.hasLoc /\ getOriginalUrl(r.loc) = getOriginalUrl(url)

\* The three comparisons of httpRequest (js).  A missing Location header is
\* undefined: it equals no string, and undefined + "/" is "undefined/".
isInternalJs(r, url) ==
    LET source == getOriginalUrl(url)
        location == getOriginalUrl(r.loc)
    IN  IF r.hasLoc
        THEN \/ location = source
             \/ location = source \o <<SLASH>>
             \/ location \o <<SLASH>> = source
        ELSE <<UNDEFINED, SLASH>> = source

\* Mutant: the comparison location + "/" == source is missing.
isInternalGoOneWay(r, url) ==
    \/ getOriginalUrl(r.loc) = getOriginalUrl(url)
    \/ getOriginalUrl(r.loc) = getOriginalUrl(url) \o <<SLASH>>

\* The three comparisons of httpRequest (go).  Header.Get yields "" for a
\* missing Location header.
isInternalGo(r, url) ==
    LET originalSourceUrl == getOriginalUrl(url)
        originalLocationUrl == getOriginalUrl(r.loc)
    IN  \/ originalLocationUrl = originalSourceUrl
        \/ originalLocationUrl = originalSourceUrl \o <<SLASH>>
        \/ originalLocationUrl \o <<SLASH>> = originalSourceUrl

IsRedirect(status) == status = 301 \/ status = 302

IsSuccess(status) == status >= 200 /\ status <= 299

Seen(k, r) ==
    [k EXCEPT !.status = r.status, !.hasLoc = r.hasLoc, !.loc = r.loc, !.ctype = r.ctype]

\* The recursive call httpRequest(location).
follow(k, location) ==
    [k EXCEPT !.cur = location, !.depth = @ + 1,
              !.lookups = IF k.phase = "lookup" THEN @ + 1 ELSE @,
              !.fetches = IF k.phase = "fetch" THEN @ + 1 ELSE @]

\* The response callback of httpRequest (js), with the continuation of
\* returnProxyResponse when the promise is rejected.
onResponseJs(k, r) ==
    LET k1 == Seen(k, r)
    IN  IF IsRedirect(r.status) /\ isInternalJs(r, k.cur)
        THEN IF r.hasLoc
             THEN Step(follow(k1, r.loc), <<>>)
             ELSE Step([k1 EXCEPT !.pc = "done", !.settled = TRUE], catchJs(k1, FALSE, 0))
        ELSE IF ~IsSuccess(r.status) /\ ~IsRedirect(r.status)
        THEN Step([k1 EXCEPT !.pc = "body", !.settled = TRUE], catchJs(k1, TRUE, r.status))
        ELSE Step([k1 EXCEPT !.pc = "body"], <<>>)

\* response.on('end') of httpRequest (js): resolve, a no-op on a settled
\* promise, and the continuation of the awaiting function.
onEndJs(k) ==
    IF k.settled
    THEN Step([k EXCEPT !.pc = "done"], <<>>)
    ELSE IF k.phase = "lookup"
    THEN getTargetUrlJs(k)
    ELSE IF IsRedirect(k.status)
    THEN Finish([k EXCEPT !.settled = TRUE],
                returnHttpRedirect(k.status,
                    IF k.hasLoc THEN getOriginalUrl(k.loc) ELSE <<UNDEFINED>>))
    ELSE Finish([k EXCEPT !.settled = TRUE],
                returnHttpResponse(200, "OK", k.ctype, k.body))

\* Mutant: a failed content fetch is issued once more.
onErrorJsRetry(k) ==
    IF k.settled
    THEN Step([k EXCEPT !.pc = "done"], <<>>)
    ELSE IF k.phase = "fetch" /\ k.fetches = k.depth + 1
    THEN Step([k EXCEPT !.fetches = @ + 1], <<>>)
    ELSE Step([k EXCEPT !.pc = "done", !.settled = TRUE, !.error = TRUE],
              catchJs(k, FALSE, 0))

\* request.on('error') of httpRequest (js): reject, a no-op on a settled
\* promise, and the catch block of returnProxyResponse.
onErrorJs(k) ==
    IF k.settled
    THEN Step([k EXCEPT !.pc = "done"], <<>>)
    ELSE Step([k EXCEPT !.pc = "done", !.settled = TRUE, !.error = TRUE],
              catchJs(k, FALSE, 0))

\* The response stream of httpRequest (js) ends early without an 'error'
\* on the request: only 'data' and 'end' are listened to, so the promise
\* stays as it is.
onAbortedJs(k) ==
    Step([k EXCEPT !.pc = IF k.settled THEN "done" ELSE "hung"], <<>>)

\* client.Get returning in httpRequest (go), and what returnProxyResponse
\* does with a redirect or an HTTPError.  http.Get of the lookup hands any
\* final response to the body read.
onResponseGo(k, r) ==
    LET k1 == Seen(k, r)
    IN  IF k.phase = "lookup"
        THEN Step([k1 EXCEPT !.pc = "body"], <<>>)
        ELSE IF IsSuccess(r.status)
        THEN Step([k1 EXCEPT !.pc = "body"], <<>>)
        ELSE IF IsRedirect(r.status)
        THEN IF isInternalGo(r, k.cur)
             THEN Step(follow(k1, r.loc), <<>>)
             ELSE Finish(k1, returnHttpRedirect(r.status, getOriginalUrl(r.loc)))
        ELSE Finish(k1, errorGo(k1, r.status))

\* Mutant: relays the status of the archive instead of 200 OK.
onEndGoRelayStatus(k) ==
    IF k.phase = "lookup"
    THEN getTargetUrlGo(k)
    ELSE Finish(k, returnHttpResponse(k.status, "OK", k.ctype, k.body))

\* io.ReadAll returning without error (go).
onEndGo(k) ==
    IF k.phase = "lookup"
    THEN getTargetUrlGo(k)
    ELSE Finish(k, returnHttpResponse(200, "OK", k.ctype, k.body))

FAILED_BODY == "Failed to read response body"

\* http.Get / client.Get / io.ReadAll returning an error (go).
onErrorGo(k) ==
    LET k1 == [k EXCEPT !.error = TRUE]
    IN  IF k.phase = "lookup"
        THEN Finish(k1, returnHttpNotFound(k.url))
        ELSE IF k.pc = "wait"
        THEN Finish(k1, errorGo(k1, 0))
        ELSE Finish(k1, returnHttpBadGateway(<<FAILED_BODY>>))

\* ------------------------------------------------------------------------
\* Actions
\* ------------------------------------------------------------------------
\* Commits one handler step of task t.  handleConnection defers
\* conn.Close(), so the go handler closes its connection when it returns;
\* the js handler never ends the socket.  A write to a connection the
\* client has reset fails and is only logged.
Apply(t, st) ==
    LET c == task[t].conn
        w == IF closed[c] THEN <<>> ELSE st.w
    IN  /\ task' = [task EXCEPT ![t] =
                      IF w = <<>> THEN st.k
                      ELSE [st.k EXCEPT !.reply = Len(out[c]) + 1]]
        /\ out' = [out EXCEPT ![c] = @ \o w]
        /\ closed' = IF impl = "go" /\ st.k.pc = "done"
                     THEN [closed EXCEPT ![c] = TRUE]
                     ELSE closed
        /\ UNCHANGED <<impl, received, codec, lookupClosestSnapshot>>

\* The client sends a chunk on connection c.  js: every chunk raises a
\* 'data' event, served by a free task.  go: the goroutine of the
\* connection reads the first chunk only; later data is never read.  An
\* empty chunk is a client that closes without sending (go only: a 'data'
\* event always carries bytes).
Receive(t, c, chunk, maxChunks) ==
    /\ ~closed[c]
    /\ impl = "js" => chunk # <<>>
    /\ received[c] < maxChunks
    /\ received' = [received EXCEPT ![c] = @ + 1]
    /\ IF impl = "go" /\ received[c] > 0
       THEN UNCHANGED task
       ELSE /\ task[t].pc \in {"idle", "done"}
            /\ task' = [task EXCEPT ![t] =
                          [IdleTask EXCEPT !.pc = "recv", !.conn = c, !.chunk = chunk]]
    /\ UNCHANGED <<impl, out, closed, codec, lookupClosestSnapshot>>

\* The handler parses the chunk.
Handle(t) ==
    /\ task[t].pc = "recv"
    /\ Apply(t, IF impl = "js" THEN onData(task[t]) ELSE handleConnection(task[t]))

WouldFollow(k, r) ==
    /\ IsRedirect(r.status)
    /\ IF impl = "js" THEN isInternalJs(r, k.cur)
       ELSE k.phase = "fetch" /\ isInternalGo(r, k.cur)

\* The archive answers the outstanding request with a status line and
\* headers.  A chain of followed redirects is explored up to maxDepth.
Response(t, r, maxDepth) ==
    /\ task[t].pc = "wait"
    /\ WouldFollow(task[t], r) => task[t].depth < maxDepth
    /\ Apply(t, IF impl = "js" THEN onResponseJs(task[t], r) ELSE onResponseGo(task[t], r))

\* Body bytes arrive: body.push(chunk) / io.ReadAll buffering.  Bodies the
\* code never looks at (after a rejection, of a relayed redirect) are left
\* empty.
BodyData(t, b) ==
    /\ task[t].pc = "body"
    /\ task[t].body = <<>>
    /\ ~task[t].settled
    /\ ~(task[t].phase = "fetch" /\ IsRedirect(task[t].status))
    /\ b \in (IF task[t].phase = "lookup"
              THEN JsonBodies \cup {<<JSON_CLOSEST_TARGET>>} \cup ContentBodies
              ELSE ContentBodies)
    /\ task' = [task EXCEPT ![t].body = b]
    /\ UNCHANGED <<impl, out, received, closed, codec, lookupClosestSnapshot>>

\* The body ends.
BodyEnd(t) ==
    /\ task[t].pc = "body"
    /\ Apply(t, IF impl = "js" THEN onEndJs(task[t]) ELSE onEndGo(task[t]))

\* The outbound request fails in transport, before the response or while
\* the body is read, and the failure is reported to the code.
Error(t) ==
    /\ task[t].pc \in {"wait", "body"}
    /\ Apply(t, IF impl = "js" THEN onErrorJs(task[t]) ELSE onErrorGo(task[t]))

\* The archive closes the connection before the body is complete and node
\* reports it on the response stream only.
Aborted(t) ==
    /\ impl = "js"
    /\ task[t].pc = "body"
    /\ Apply(t, onAbortedJs(task[t]))

Run(tasks, conns, chunks, heads, bodies, maxDepth, maxChunks) ==
    \E t \in tasks :
        \/ \E c \in conns, chunk \in chunks : Receive(t, c, chunk, maxChunks)
        \/ Handle(t)
        \/ \E r \in heads : Response(t, r, maxDepth)
        \/ \E b \in bodies : BodyData(t, b)
        \/ BodyEnd(t)
        \/ Error(t)
        \/ Aborted(t)

\* Mutant: no 'error' listener on the socket, the event ends the process
\* and with it every connection.
onSocketErrorUncaught(c) == [d \in Conns |-> TRUE]

\* socket.on('error') (js) logs the error and the socket is gone; in go the
\* failed read or write is logged by the goroutine of that connection.
onSocketError(c) == [closed EXCEPT ![c] = TRUE]

\* The client resets connection c.
ClientReset(c) ==
    /\ ~closed[c]
    /\ received[c] > 0
    /\ closed' = onSocketError(c)
    /\ UNCHANGED <<impl, task, out, received, codec, lookupClosestSnapshot>>

\* One connection served by one handler at a time.
Next == Run({1}, {1}, Chunks, Heads, Bodies, MaxDepth, MaxChunks)

Spec == Init /\ [][Next]_vars

\* An archive that keeps answering one request with redirects to other
\* snapshots of the same page.
LoopChunks == { RequestLine("GET", URL_A, "HTTP/1.1") \o <<CRLF>> }

LoopHeads ==
    { ResponseHead(s, TRUE, ArchiveUrl(ts, u), "text/html") :
        s \in {301, 302}, ts \in {TIME_TRAVEL_DATETIME, OTHER_TIMESTAMP},
        u \in {URL_A, URL_A_SLASH} }
    \cup { ResponseHead(302, TRUE, ArchiveUrl(OTHER_TIMESTAMP, URL_A_SLASH \o <<SLASH>>), "text/html") }
    \cup { ResponseHead(200, FALSE, <<>>, "text/plain"),
           ResponseHead(500, FALSE, <<>>, "text/html") }

NextLoop == Run({1}, {1}, LoopChunks, LoopHeads, Bodies, LoopDepth, MaxChunks)

SpecLoop == Init /\ [][NextLoop]_vars

\* Two connections served at the same time, and clients that reset them.
ConcChunks ==
    { RequestLine("GET", URL_A, "HTTP/1.1") \o <<CRLF>>,
      RequestLine("POST", URL_A, "HTTP/1.1") \o <<CRLF>> }

ConcHeads ==
    { ResponseHead(200, FALSE, <<>>, "text/plain"),
      ResponseHead(500, FALSE, <<>>, "text/html") }

ConcBodies == { <<JSON_CLOSEST>>, <<JSON_CLOSEST_TARGET>> } \cup ContentBodies

\* Handler t serves connection t.
NextConc ==
    \/ \E t \in TaskIds : Run({t}, {t}, ConcChunks, ConcHeads, ConcBodies, ConcDepth, ConcChunksPerConn)
    \/ \E c \in Conns : ClientReset(c)

SpecConc == Init /\ [][NextConc]_vars

\* Two requests sent on one connection without waiting for the answer.
NextPipe == Run(TaskIds, {1}, ConcChunks, ConcHeads, ConcBodies, ConcDepth, MaxChunks)

SpecPipe == Init /\ [][NextPipe]_vars

\* The proxy started with either lookup mode asked for.
InitModes == Listening /\ codec = NoCodec /\ lookupClosestSnapshot \in BOOLEAN

NextModes == Run({1}, {1}, ConcChunks, ConcHeads, ConcBodies, ConcDepth, ConcChunksPerConn)

SpecModes == InitModes /\ [][NextModes]_vars

\* The URL codec and the redirect comparison applied to pairs of URLs.
CodecUrls ==
    { URL_A, URL_A_SLASH, URL_A_SLASH \o <<SLASH>>, URL_B,
      <<SP>> \o URL_A \o <<SP>>,
      URL_A \o <<LF, "x">>,
      ArchiveUrl(OTHER_TIMESTAMP, URL_A),
      ArchiveUrl(TIME_TRAVEL_DATETIME, URL_A_SLASH),
      <<WAYBACK_URL, OTHER_TIMESTAMP, SLASH>> \o URL_A,
      <<WAYBACK_URL, "*", SLASH>> \o URL_B,
      URL_A_SLASH \o ArchiveUrl(OTHER_TIMESTAMP, URL_B) }

CodecTimestamps == {TIME_TRAVEL_DATETIME, OTHER_TIMESTAMP}

InitCodec ==
    /\ Listening
    /\ lookupClosestSnapshot = TRUE
    /\ codec \in { [NoCodec EXCEPT !.a = a, !.b = b, !.ts = ts] :
                      a \in CodecUrls, b \in CodecUrls, ts \in CodecTimestamps }

\* getOriginalUrl(a)
Decode ==
    /\ "decode" \notin codec.did
    /\ codec' = [codec EXCEPT !.did = @ \cup {"decode"},
                              !.decoded = getOriginalUrl(codec.a)]
    /\ UNCHANGED <<impl, task, out, received, closed, lookupClosestSnapshot>>

\* getOriginalUrl(WAYBACK_URL + ts + "id_/" + a)
RoundTrip ==
    /\ "roundtrip" \notin codec.did
    /\ codec' = [codec EXCEPT !.did = @ \cup {"roundtrip"},
                              !.roundTrip = getOriginalUrl(ArchiveUrl(codec.ts, codec.a))]
    /\ UNCHANGED <<impl, task, out, received, closed, lookupClosestSnapshot>>

\* The redirect test of httpRequest for Location a and requested URL b,
\* and for Location b and requested URL a.
Compare ==
    /\ "compare" \notin codec.did
    /\ codec' = [codec EXCEPT !.did = @ \cup {"compare"},
                              !.equivalent =
                                  IF impl = "js"
                                  THEN isInternalJs([hasLoc |-> TRUE, loc |-> codec.a], codec.b)
                                  ELSE isInternalGo([hasLoc |-> TRUE, loc |-> codec.a], codec.b),
                              !.swapped =
                                  IF impl = "js"
                                  THEN isInternalJs([hasLoc |-> TRUE, loc |-> codec.b], codec.a)
                                  ELSE isInternalGo([hasLoc |-> TRUE, loc |-> codec.b], codec.a)]
    /\ UNCHANGED <<impl, task, out, received, closed, lookupClosestSnapshot>>

NextCodec == Decode \/ RoundTrip \/ Compare

SpecCodec == InitCodec /\ [][NextCodec]_vars

\* ------------------------------------------------------------------------
\* Vocabulary of the properties
\* ------------------------------------------------------------------------
Answered(t) == task[t].reply # 0

\* The response task t wrote to its connection.
Reply(t) == out[task[t].conn][task[t].reply]

\* Equal, or equal after appending "/" to either side.
Equivalent(a, b) == a = b \/ a \o <<SLASH>> = b \/ a = b \o <<SLASH>>

\* The URL lies under the archive base.
IsArchiveQualified(url) == url # <<>> /\ url[1] = WAYBACK_URL

Contains(s, sub) ==
    \E i \in 0..(Len(s) - Len(sub)) : SubSeq(s, i + 1, i + Len(sub)) = sub

\* The step of task t that handles the head of an archive response to a
\* content fetch.
FetchHeadStep(t) ==
    /\ task[t].pc = "wait"
    /\ task[t].phase = "fetch"
    /\ task'[t] # task[t]
    /\ ~task'[t].error

\* ------------------------------------------------------------------------
\* C1  Redirect-loop bound
\* ------------------------------------------------------------------------
\* The cap of spec 4.3 step 3d ("a small constant, e.g. 10").
RecursionCap == 10

\* C1: the fetcher follows at most RecursionCap redirects for one request:
\* no handler ever has more than RecursionCap followed redirects behind it.
C1_RedirectLoopBound ==
    \A t \in TaskIds : task[t].depth <= RecursionCap

\* ------------------------------------------------------------------------
\* C2  Silent follow
\* ------------------------------------------------------------------------
\* C2: when the archive answers a content fetch with a 301/302 whose
\* Location decodes to the same original URL as the URL just requested
\* (equal, or equal after appending "/" to either side), the handler issues
\* one new GET to exactly that Location and writes nothing to the client in
\* that step.
C2_SilentFollow ==
    [][\A t \in TaskIds :
          ( /\ FetchHeadStep(t)
            /\ IsRedirect(task'[t].status)
            /\ task'[t].hasLoc
            /\ Equivalent(getOriginalUrl(task'[t].loc), getOriginalUrl(task[t].cur)) )
          => ( /\ task'[t].pc = "wait"
               /\ task'[t].cur = task'[t].loc
               /\ task'[t].fetches = task[t].fetches + 1
               /\ task'[t].reply = 0
               /\ out' = out )]_vars

\* A request that was silently redirected to a URL differing by a trailing
\* slash and then answered with the page.
C2_Witness ==
    \E t \in TaskIds :
        /\ task[t].depth > 0
        /\ getOriginalUrl(task[t].cur) # task[t].url
        /\ Answered(t)
        /\ Reply(t).code = 200

\* ------------------------------------------------------------------------
\* C3  Relayed redirect
\* ------------------------------------------------------------------------
\* C3: a 301/302 answer to a content fetch whose decoded Location is not
\* equivalent to the decoded requested URL reaches the client with the same
\* status and with the decoded Location, and that Location is not an
\* archive-qualified URL.
C3_RelayedRedirect ==
    \A t \in TaskIds :
        ( /\ task[t].phase = "fetch"
          /\ Answered(t)
          /\ ~task[t].error
          /\ IsRedirect(task[t].status)
          /\ task[t].hasLoc
          /\ ~Equivalent(getOriginalUrl(task[t].loc), getOriginalUrl(task[t].cur)) )
        => ( /\ Reply(t).code = task[t].status
             /\ Reply(t).hasLocation
             /\ Reply(t).location = getOriginalUrl(task[t].loc)
             /\ ~IsArchiveQualified(Reply(t).location) )

\* ------------------------------------------------------------------------
\* C4  One response per connection
\* ------------------------------------------------------------------------
\* C4: a connection carries at most one response, and once the response is
\* written the proxy has closed the connection.
C4_OneResponsePerConnection ==
    \A c \in Conns :
        /\ Len(out[c]) <= 1
        /\ out[c] # <<>> => closed[c]

\* ------------------------------------------------------------------------
\* C5, C6  Request-line validation
\* ------------------------------------------------------------------------
\* The request line of a chunk: everything before its first CRLF or LF.
HasRequestLine(chunk) == FirstIndex(chunk, 1, {LF, CRLF}) <= Len(chunk)

RequestLineOf(chunk) == SubSeq(chunk, 1, FirstIndex(chunk, 1, {LF, CRLF}) - 1)

\* The space-separated tokens of a line.
Tokens(line) == Split(line, SP)

\* Lines whose tokens are the same whether one cuts at every space or
\* around runs of white space.
PlainLine(line) == Tokens(line) = Fields(line)

\* The step in which the handler of task t parses its chunk.
ParseStep(t) == task[t].pc = "recv" /\ task'[t].pc # "recv"

\* That step answers 400 with the fixed body and sends nothing upstream.
Rejected(t) ==
    /\ task'[t].pc = "done"
    /\ task'[t].lookups = 0
    /\ task'[t].fetches = 0
    /\ out'[task[t].conn] = Append(out[task[t].conn], out'[task[t].conn][Len(out[task[t].conn]) + 1])
    /\ out'[task[t].conn][Len(out[task[t].conn]) + 1].code = 400
    /\ out'[task[t].conn][Len(out[task[t].conn]) + 1].body = <<HTML_400, HTML_END>>

\* That step starts the lookup for url and writes nothing.
Dispatched(t, url) ==
    /\ task'[t].pc = "wait"
    /\ task'[t].url = url
    /\ task'[t].lookups = 1
    /\ out' = out

\* C5: a request line that does not consist of exactly 3 space-separated
\* tokens is answered with the fixed 400 response, and no request is sent
\* to the archive for it.
C5_TokenCount ==
    [][\A t \in TaskIds :
          ( /\ ParseStep(t)
            /\ HasRequestLine(task[t].chunk)
            /\ PlainLine(RequestLineOf(task[t].chunk))
            /\ Len(Tokens(RequestLineOf(task[t].chunk))) # 3 )
          => Rejected(t)]_vars

\* C6: a request line of 3 tokens is dispatched with its second token as
\* the target URL if its first token is "GET" in any letter case, and is
\* answered 400 with no outbound request otherwise.
C6_Method ==
    [][\A t \in TaskIds :
          ( /\ ParseStep(t)
            /\ HasRequestLine(task[t].chunk)
            /\ PlainLine(RequestLineOf(task[t].chunk))
            /\ Len(Tokens(RequestLineOf(task[t].chunk))) = 3 )
          => IF ToLower(Tokens(RequestLineOf(task[t].chunk))[1]) = <<"get">>
             THEN Dispatched(t, Tokens(RequestLineOf(task[t].chunk))[2])
             ELSE Rejected(t)]_vars

\* ------------------------------------------------------------------------
\* C7, C8  Availability lookup
\* ------------------------------------------------------------------------
\* The step in which task t takes the body of the lookup response.
LookupResultStep(t) ==
    /\ task[t].phase = "lookup"
    /\ task[t].pc = "body"
    /\ task'[t].pc # "body"
    /\ ~task[t].settled
    /\ ~task'[t].error

\* C7: a lookup response without archived_snapshots.closest (with or
\* without archived_snapshots) ends the request with a 404 whose body
\* contains the requested URL, and no content fetch is issued.
C7_AvailabilityMiss ==
    [][\A t \in TaskIds :
          ( /\ LookupResultStep(t)
            /\ task[t].body \in {<<JSON_EMPTY>>, <<JSON_NO_CLOSEST>>} )
          => ( /\ task'[t].pc = "done"
               /\ task'[t].fetches = 0
               /\ task'[t].reply = Len(out[task[t].conn]) + 1
               /\ Len(out'[task[t].conn]) = Len(out[task[t].conn]) + 1
               /\ out'[task[t].conn][task'[t].reply].code = 404
               /\ Contains(out'[task[t].conn][task'[t].reply].body, task[t].url) )]_vars

C9_SuccessfulRelay ==
    \A t \in TaskIds :
        ( /\ task[t].phase = "fetch"
          /\ task[t].pc = "done"
          /\ ~task[t].error
          /\ IsSuccess(task[t].status) )
        => ( /\ Answered(t)
             /\ Reply(t).code = 200
             /\ Reply(t).reason = "OK"
             /\ Reply(t).hasType
             /\ Reply(t).type = task[t].ctype
             /\ Reply(t).hasLength
             /\ Reply(t).length = Len(task[t].body)
             /\ Reply(t).body = task[t].body )

\* A page of three bytes (two characters) was relayed after a 204 answer.
C9_Witness ==
    \E t \in TaskIds :
        /\ task[t].phase = "fetch"
        /\ task[t].pc = "done"
        /\ task[t].status = 204
        /\ Answered(t)
        /\ Reply(t).code = 200
        /\ Reply(t).type = "text/plain"
        /\ Reply(t).length = 3
        /\ Reply(t).body = <<"h", "c3", "a9">>

\* ------------------------------------------------------------------------
\* C10  Upstream failure mapping
\* ------------------------------------------------------------------------
\* The content fetch of task t ended with an error status.
FailureStatus(t) ==
    /\ task[t].phase = "fetch"
    /\ task[t].status # 0
    /\ ~IsSuccess(task[t].status)
    /\ ~IsRedirect(task[t].status)

\* The content fetch of task t ended with a transport error.
TransportError(t) == task[t].phase = "fetch" /\ task[t].error

LookupFailed(t) ==
    /\ task[t].phase = "lookup"
    /\ task[t].pc = "done"
    /\ \/ task[t].error
       \/ task[t].status # 0 /\ ~IsSuccess(task[t].status) /\ ~IsRedirect(task[t].status)
       \/ ~ParseJson(task[t].body).ok

\* C11: when the availability lookup fails, the client receives a 502 and no
\* content fetch is issued.
C11_ResolverFailure ==
    \A t \in TaskIds :
        LookupFailed(t) =>
            /\ Answered(t)
            /\ Reply(t).code = 502
            /\ task[t].fetches = 0

\* ------------------------------------------------------------------------
\* C12  Every failure is answered
\* ------------------------------------------------------------------------
\* C12: every handler that was dispatched for a request line and has come
\* to rest has written a response to its connection.
C12_EveryFailureAnswered ==
    \A t \in TaskIds :
        (task[t].lookups > 0 /\ task[t].pc \in {"done", "hung"}) => Answered(t)

\* ------------------------------------------------------------------------
\* C13, C14, C15  Responses written to clients
\* ------------------------------------------------------------------------
\* Every response written so far satisfies P.
Written(P(_)) == \A c \in Conns : \A i \in 1..Len(out[c]) : P(out[c][i])

ClientStatusCodes == {200, 301, 302, 400, 404, 502}

HasClientStatus(r) == r.code \in ClientStatusCodes

\* C13: every response written to a client carries a status code in
\* {200, 301, 302, 400, 404, 502}.
C13_StatusCodes == Written(HasClientStatus)

\* Statuses 204 and 304 of the archive were answered with 200 and 502.
C13_Witness ==
    /\ Len(out[1]) = 2
    /\ out[1][1].code = 200
    /\ out[1][2].code = 502
    /\ Contains(out[1][2].body, <<REMOTE_RETURNED, "304">>)
    /\ \E t \in TaskIds : task[t].phase = "fetch" /\ task[t].status = 304

HasServerHeader(r) == r.hasServer /\ r.server = PROXY_SERVER_NAME

\* C14: every response written to a client, redirects included, has a
\* Server header with the configured identifier.
C14_ServerHeader == Written(HasServerHeader)

HasShapeOfKind(r) ==
    IF r.code \in {301, 302}
    THEN r.hasLocation /\ ~r.hasType /\ ~r.hasLength /\ r.body = <<>>
    ELSE r.hasType /\ r.hasLength /\ r.length = Len(r.body) /\ ~r.hasLocation

\* C15: a 301/302 response has Location, no Content-Type, no
\* Content-Length and no body; every other response has Content-Type and
\* Content-Length equal to the number of bytes of its body, and no Location.
C15_ResponseShape == Written(HasShapeOfKind)

\* A redirect and a page were written one after the other.
C15_Witness ==
    /\ Len(out[1]) = 2
    /\ out[1][1].code = 302
    /\ out[1][1].location = URL_B
    /\ out[1][2].code = 200
    /\ out[1][2].length = 3

\* ------------------------------------------------------------------------
\* C16, C17, C18  URL codec and redirect comparison (SpecCodec)
\* ------------------------------------------------------------------------
\* C16: for every URL u without the archive base in it and every timestamp
\* t, getOriginalUrl(archiveBase + t + "id_/" + u) is u trimmed of
\* surrounding white space.
C16_CodecRoundTrip ==
    ( /\ "roundtrip" \in codec.did
      /\ ~Contains(codec.a, <<WAYBACK_URL>>) )
    => codec.roundTrip = Trim(codec.a)

\* The URL begins with archiveBase, a run of [0-9a-z_] and a slash.
BeginsWithArchivePrefix(url) == url # <<>> /\ MatchAt(url, 1)

\* What follows that prefix.
AfterArchivePrefix(url) == SubSeq(url, ClassRunEnd(url, 2) + 1, Len(url))

\* C17: getOriginalUrl returns a URL that does not begin with the archive
\* prefix unchanged, and of a URL that begins with it exactly the
\* remainder, trimmed.
C17_DecodeStripsOnlyPrefix ==
    "decode" \in codec.did
    => codec.decoded = IF BeginsWithArchivePrefix(codec.a)
                       THEN Trim(AfterArchivePrefix(codec.a))
                       ELSE codec.a

\* y is x, or x followed by one slash.
SameOrOneSlashMore(x, y) ==
    \/ y = x
    \/ Len(y) = Len(x) + 1 /\ y[Len(y)] = SLASH /\ SubSeq(y, 1, Len(x)) = x

\* C18: the redirect comparison gives the same answer with its arguments
\* exchanged, and is true exactly when the two decoded URLs are equal or one
\* of them is the other followed by a single "/".
C18_TrailingSlashEquivalence ==
    "compare" \in codec.did
    => /\ codec.equivalent = codec.swapped
       /\ codec.equivalent =
             ( \/ SameOrOneSlashMore(getOriginalUrl(codec.a), getOriginalUrl(codec.b))
               \/ SameOrOneSlashMore(getOriginalUrl(codec.b), getOriginalUrl(codec.a)) )

\* Two snapshots of a page, one with and one without the trailing slash,
\* were found equivalent in both directions by the go comparison.
C18_Witness ==
    /\ impl = "go"
    /\ "compare" \in codec.did
    /\ codec.a = ArchiveUrl(TIME_TRAVEL_DATETIME, URL_A_SLASH)
    /\ codec.b = ArchiveUrl(OTHER_TIMESTAMP, URL_A)
    /\ codec.equivalent
    /\ codec.swapped

\* ------------------------------------------------------------------------
\* C19  Failures stay on their connection (SpecConc)
\* ------------------------------------------------------------------------
\* A step that writes to connection c, closes it or resets it.
Touches(c) == out'[c] # out[c] \/ closed'[c] # closed[c]

\* Every other connection and the handlers of other connections are as
\* before.
OthersUntouched(c) ==
    /\ \A d \in Conns \ {c} : out'[d] = out[d] /\ closed'[d] = closed[d]
    /\ \A t \in TaskIds : task[t].conn # c => task'[t] = task[t]

\* Handler t comes to an end in this step while its client is connected.
EndsConnected(t) ==
    /\ task[t].pc \notin {"idle", "done"}
    /\ task'[t].pc = "done"
    /\ ~closed[task[t].conn]

\* C19: whatever happens on one connection (reset by the client, failed
\* write, upstream error) changes nothing on any other connection, which
\* stays open, and every handler that ends while its own client is still
\* connected has written its response.
C19_FailureIsolation ==
    [][ /\ \A c \in Conns : Touches(c) => OthersUntouched(c)
        /\ \A t \in TaskIds : EndsConnected(t) => task'[t].reply # 0 ]_vars

\* The client of connection 1 is gone and the response of its handler was
\* lost; connection 2 is open and has received its page.
C19_Witness ==
    /\ closed[1]
    /\ task[1].conn = 1
    /\ task[1].pc = "done"
    /\ task[1].fetches = 1
    /\ out[1] = <<>>
    /\ ~closed[2]
    /\ task[2].conn = 2
    /\ Len(out[2]) = 1
    /\ out[2][1].code = 200

\* ------------------------------------------------------------------------
\* C20  Request-line framing
\* ------------------------------------------------------------------------
\* What the handler does with task k.
Parse(k) == IF impl = "js" THEN onData(k) ELSE handleConnection(k)

\* Task k with nothing but its request line, terminated by CRLF.
RequestLineOnly(k) == [k EXCEPT !.chunk = RequestLineOf(k.chunk) \o <<CRLF>>]

\* C20: the handler does with a request what it does with the request line
\* alone terminated by CRLF: a bare LF ends the line as CRLF does, and the
\* header lines after it change nothing.
C20_RequestLineFraming ==
    [][\A t \in TaskIds :
          (ParseStep(t) /\ HasRequestLine(task[t].chunk))
          => /\ out'[task[t].conn] =
                   out[task[t].conn] \o Parse(RequestLineOnly(task[t])).w
             /\ task'[t].pc = Parse(RequestLineOnly(task[t])).k.pc
             /\ task'[t].url = Parse(RequestLineOnly(task[t])).k.url
             /\ task'[t].cur = Parse(RequestLineOnly(task[t])).k.cur]_vars

\* ------------------------------------------------------------------------
\* C21  Lookup mode (SpecModes)
\* ------------------------------------------------------------------------
\* The first content fetch of task t is in flight.
FirstFetch(t) ==
    task[t].phase = "fetch" /\ task[t].pc = "wait" /\ task[t].depth = 0

\* C21: with the lookup asked for, the availability lookup is made before
\* any content fetch; with the lookup turned off, no lookup is made and the
\* first fetch goes to base + configured date + "id_/" + client URL.
C21_LookupModeSwitch ==
    \A t \in TaskIds :
        IF lookupClosestSnapshot
        THEN task[t].fetches > 0 => task[t].lookups > 0
        ELSE /\ task[t].lookups = 0
             /\ FirstFetch(t) => task[t].cur = ArchiveUrl(TIME_TRAVEL_DATETIME, task[t].url)

\* ------------------------------------------------------------------------
\* C22  One outcome for every call of the fetcher
\* ------------------------------------------------------------------------
\* The call of the fetcher made for task t is over.
CallOver(t) == task[t].lookups > 0 /\ task[t].pc \in {"done", "hung"}

\* C22: every call of the fetcher that is over has delivered one outcome to
\* the handler, which wrote one response for it and no second one: a
\* connection never holds more responses than requests.
C22_SingleOutcome ==
    /\ \A c \in Conns : Len(out[c]) <= received[c]
    /\ \A t \in TaskIds :
          CallOver(t) => /\ Answered(t)
                         /\ task[t].settled \/ impl = "go"

\* ------------------------------------------------------------------------
\* C23  One request at a time on a connection (SpecPipe)
\* ------------------------------------------------------------------------
\* The handlers of connection c with an upstream request in flight.
InFlight(c) ==
    { t \in TaskIds : task[t].conn = c /\ task[t].pc \in {"wait", "body"} }

\* C23: a connection has at most one upstream request in flight.
C23_SequentialConnection ==
    \A c \in Conns : Cardinality(InFlight(c)) <= 1

\* ------------------------------------------------------------------------
\* C24  No retries
\* ------------------------------------------------------------------------
\* Task t was at rest and is not given a new request in this step.
StaysAtRest(t) == task[t].pc \in {"done", "hung"} /\ task'[t].pc # "recv"

\* C24: a request makes one GET per hop: during the lookup as many lookups
\* as hops and no content fetch, during the content fetch as many fetches as
\* hops and no further lookup; a step that reports a failure issues nothing,
\* and nothing is issued once the handler is at rest.
C24_NoRetries ==
    [][\A t \in TaskIds :
          /\ task'[t].phase = "lookup" =>
                /\ task'[t].lookups = task'[t].depth + 1
                /\ task'[t].fetches = 0
          /\ task'[t].phase = "fetch" =>
                /\ task'[t].fetches = task'[t].depth + 1
                /\ task'[t].lookups = task[t].lookups
                      \/ task[t].phase \in {"lookup", "idle"}
                      \/ task[t].pc = "recv"
          /\ (task'[t].error /\ ~task[t].error) =>
                /\ task'[t].lookups = task[t].lookups
                /\ task'[t].fetches = task[t].fetches
          /\ StaysAtRest(t) =>
                /\ task'[t].lookups = task[t].lookups
                /\ task'[t].fetches = task[t].fetches]_vars

\* A content fetch failed on its second hop and was answered with a 502
\* after exactly two fetches.
C24_Witness ==
    \E t \in TaskIds :
        /\ task[t].phase = "fetch"
        /\ task[t].pc = "done"
        /\ task[t].error
        /\ task[t].depth = 1
        /\ task[t].fetches = 2
        /\ task[t].lookups = 1
        /\ Answered(t)
        /\ Reply(t).code = 502

\* ------------------------------------------------------------------------
\* C25  Run to completion
\* ------------------------------------------------------------------------
\* C25: no handler is left waiting with nothing in flight: a handler that
\* called the fetcher either has a request in flight or is at its end.
C25_RunToCompletion ==
    \A t \in TaskIds : task[t].pc # "hung"

NamedSnapshot(t) == ParseJson(task[t].doc).ok /\ ParseJson(task[t].doc).hasClosest

C27_ArchiveOnlyEgress ==
    \A t \in TaskIds :
        task[t].pc \in {"wait", "body"}
        => /\ task[t].cur # <<>>
           /\ task[t].cur[1] \in {AVAILABLE_URL, WAYBACK_URL}

\* ------------------------------------------------------------------------
\* C28  No drift over redirect hops (SpecLoop)
\* ------------------------------------------------------------------------
\* C28: the page relayed at the end of a chain of silent redirects comes
\* from an archive URL whose original URL is the requested one up to one
\* trailing "/".
C28_NoDrift ==
    \A t \in TaskIds :
        ( /\ task[t].phase = "fetch"
          /\ task[t].pc = "done"
          /\ IsSuccess(task[t].status)
          /\ Answered(t)
          /\ Reply(t).code = 200 )
        => Equivalent(getOriginalUrl(task[t].cur), task[t].url)

\* ------------------------------------------------------------------------
\* C29  Redirect without Location
\* ------------------------------------------------------------------------
\* C29: a redirect relayed to the client carries a Location the archive
\* sent.
C29_RelayedLocationPresent ==
    \A t \in TaskIds :
        (Answered(t) /\ Reply(t).code \in {301, 302})
        => /\ task[t].hasLoc
           /\ Reply(t).location \notin {<<>>, <<UNDEFINED>>}

\* ------------------------------------------------------------------------
\* C30  The two implementations answer alike
\* ------------------------------------------------------------------------
\* Status and Location of the response a step writes, if any.
Visible(w) == IF w = <<>> THEN <<>> ELSE <<w[1].code, w[1].location>>

\* Two steps write the same and leave the handler at the same point with
\* the same URLs.
Alike(a, b) ==
    /\ Visible(a.w) = Visible(b.w)
    /\ a.k.pc = b.k.pc
    /\ a.k.url = b.k.url
    /\ a.k.cur = b.k.cur

\* The lookup of task t, on its first hop, ends with its body in this step.
LookupEndStep(t) ==
    /\ task[t].phase = "lookup"
    /\ task[t].pc = "body"
    /\ task[t].depth = 0
    /\ task'[t].phase # "lookup" \/ task'[t].pc = "done"

\* C30: from the same state the javascript and the go handler take the same
\* step: the same bytes received are rejected or dispatched by both, and the same
\* lookup result leads both to the same fetch or the same answer.
C30_VariantEquivalence ==
    [][\A t \in TaskIds :
          /\ (ParseStep(t) /\ task[t].chunk # <<>>)
                => Alike(onData(task[t]), handleConnection(task[t]))
          /\ LookupEndStep(t) => Alike(onEndJs(task[t]), onEndGo(task[t]))]_vars

====
